---- MODULE Spec2Model ----
(***************************************************************************)
(* PlayHub: the game list (GameGrid.tsx) driven by the search, filter and  *)
(* favorites-only state of the application (App.tsx), with the list        *)
(* requests it sends to the RAWG service (rawgApi.ts).                     *)
(*                                                                         *)
(* A step of the model is one browser task: an event handler or the        *)
(* continuation of an awaited fetch, together with the React renders and   *)
(* effects it causes.  Text is a sequence of one-character strings, so     *)
(* that trimming is computed; ids and option tokens are strings.           *)
(***************************************************************************)
EXTENDS Integers, Sequences, FiniteSets, Bags, TLC

VARIABLES
    searchQuery,      \* App: useState('')
    filters,          \* App: useState<FilterState>
    showingFavorites, \* App: useState(false); GameGrid's showFavoritesOnly
    showFilters,      \* App: useState(false)
    favorites,        \* App: useState<number[]>([])
    localStorage,     \* window.localStorage: the text held under each key
    emptyAtSwitch,    \* which no code reads: favorites-only mode is on and games
                      \* was empty when it was switched on
    games,            \* GameGrid: useState<Game[]>([])
    isLoading,        \* GameGrid: useState(true)
    isLoadingMore,    \* GameGrid: useState(false)
    error,            \* GameGrid: useState<string | null>(null), a set of messages
    hasMore,          \* GameGrid: useState(true)
    currentPage,      \* GameGrid: useState(1)
    loadMoreCb,       \* GameGrid: the memoized loadMore and what its closure holds
    observer,         \* GameGrid: observerRef, and the loadMore its callback holds
    failed,           \* a render threw and React removed the whole tree
    mountPending,     \* App's first render is committed, its effects have not run
    pendingFavorites, \* the value the load effect handed to setFavorites, until
                      \* the render that shows it (a set)
    selectedGame,     \* App: useState<Game | null>(null), the set of its ids
    gameDetails,      \* GameDetailsModal: useState(null), the game they are of
    screenshots,      \* GameDetailsModal: useState([]), the game they are of
    trailers,         \* GameDetailsModal: useState([]), the game they are of
    detailsLoading,   \* GameDetailsModal: isLoading, useState(false)
    detailGroups,     \* the Promise.all groups of loadGameDetails not yet settled
                      \* (a bag), each with the parts still awaiting a response
    lastResponse,     \* what fetch gave the call that settled in the last task
    inflight,         \* the getGames calls awaiting their response (a bag); each
                      \* carries `superseded`, which no code reads: the props
                      \* changed after the call was made, or it was made by a
                      \* closure over earlier props
    lastEvent,        \* the task that ran last
    toggleHistory,    \* which no code reads: the favorites the session started
                      \* with, and the ids whose heart was pressed an odd
                      \* number of times since
    trendingGames,          \* TrendingSection: useState<Game[]>([]), their ids
    upcomingGames,          \* TrendingSection: useState<Game[]>([]), their ids
    trendingLoading,        \* TrendingSection: isLoading, useState(true)
    currentTrendingIndex,   \* TrendingSection: useState(0)
    currentUpcomingIndex    \* TrendingSection: useState(0)

vars == <<searchQuery, filters, showingFavorites, showFilters, favorites,
          localStorage, emptyAtSwitch, games, isLoading, isLoadingMore, error,
          hasMore, currentPage, loadMoreCb, observer, inflight, lastEvent,
          failed, selectedGame, gameDetails, screenshots, trailers,
          detailsLoading, detailGroups, lastResponse, mountPending,
          pendingFavorites, toggleHistory, trendingGames, upcomingGames,
          trendingLoading, currentTrendingIndex, currentUpcomingIndex>>

trendingVars == <<trendingGames, upcomingGames, trendingLoading, currentTrendingIndex,
                  currentUpcomingIndex>>

startVars == <<mountPending, pendingFavorites>>

modalVars == <<selectedGame, gameDetails, screenshots, trailers, detailsLoading,
               detailGroups>>

appVars == <<searchQuery, filters, showingFavorites, showFilters>>

gridVars == <<games, isLoading, isLoadingMore, error, hasMore, currentPage,
              loadMoreCb, observer>>

----------------------------------------------------------------------------
(* Bounds of the model *)

\* the calls to the service that may be awaiting a response at once
MaxInFlight == 2

\* the pages the service holds for a request without search text
MaxPages == 2

\* the games on a page that is not the last one
ItemsPerPage == 2

\* page_size sent with every list request
PageSize == 20

\* the game ids a user meets: 1..MaxFavIds
MaxFavIds == 3

\* the length of a favorites list found in localStorage at startup
MaxPersisted == 3

\* the games whose details a user opens: 1..MaxDetailIds
MaxDetailIds == 2

\* the groups of detail calls that may be unsettled at once
MaxGroups == 2
MaxCarouselResults == 11

\* HTTP statuses: the first and last for which response.ok holds, and two
\* for which it does not
StatusOk == 200

StatusOkLast == 299

StatusNotFound == 404

StatusServerError == 500
CarouselLimit == 10
NextWrapOffset == 2
PrevWrapOffset == 3

----------------------------------------------------------------------------
(* Inputs *)

SearchInputs == {<<>>, <<" ">>, <<"m">>}

GenreIds == {"4"}

PlatformIds == {}

OrderingOptions == {""}

MetacriticOptions == {""}

\* the ids of the games whose heart button a user presses
FavoriteIds == 1..MaxFavIds

\* the key of the favorites in localStorage
FavoritesKey == "playhub-favorites"

\* a storage that holds nothing: under each key the set of texts it holds
EmptyStorage == [k \in {FavoritesKey} |-> {}]

EmptyFilters == [genres |-> <<>>, platforms |-> <<>>, ordering |-> "", metacritic |-> ""]

LoadError == "Failed to load games. Please try again."

----------------------------------------------------------------------------
(* Text and arrays *)

RECURSIVE TrimStart(_)
TrimStart(s) == IF s # <<>> /\ Head(s) = " " THEN TrimStart(Tail(s)) ELSE s

RECURSIVE TrimEnd(_)
TrimEnd(s) ==
    IF s # <<>> /\ s[Len(s)] = " " THEN TrimEnd(SubSeq(s, 1, Len(s) - 1)) ELSE s

Trim(s) == TrimEnd(TrimStart(s))

Includes(arr, x) == \E i \in 1..Len(arr) : arr[i] = x

Without(arr, x) == SelectSeq(arr, LAMBDA y : y # x)

RECURSIVE Join(_)
Join(arr) ==
    IF arr = <<>> THEN ""
    ELSE IF Len(arr) = 1 THEN arr[1]
    ELSE arr[1] \o "," \o Join(Tail(arr))

----------------------------------------------------------------------------
(* JSON text of a number array, as JSON.stringify writes it, and JSON.parse  *)
(* of the texts met here: a number array, null, or text that is no JSON,    *)
(* which is a SyntaxError, the empty set of results                         *)

Digits == <<"0", "1", "2", "3", "4", "5", "6", "7", "8", "9">>

IsDigit(c) == \E d \in 1..10 : Digits[d] = c

DigitValue(c) == (CHOOSE d \in 1..10 : Digits[d] = c) - 1

RECURSIVE NumberText(_)
NumberText(n) ==
    IF n < 10 THEN <<Digits[n + 1]>>
    ELSE NumberText(n \div 10) \o <<Digits[(n % 10) + 1]>>

RECURSIVE NumberValue(_)
NumberValue(digits) ==
    IF Len(digits) = 1 THEN DigitValue(digits[1])
    ELSE 10 * NumberValue(SubSeq(digits, 1, Len(digits) - 1))
         + DigitValue(digits[Len(digits)])

RECURSIVE ElementsText(_)
ElementsText(arr) ==
    IF arr = <<>> THEN <<>>
    ELSE IF Len(arr) = 1 THEN NumberText(arr[1])
    ELSE NumberText(arr[1]) \o <<",">> \o ElementsText(Tail(arr))

NullText == <<"n", "u", "l", "l">>

JSONStringify(arr) == <<"[">> \o ElementsText(arr) \o <<"]">>

\* the elements between the brackets: `items` read so far, `digits` of the
\* number being read
RECURSIVE ParseElements(_, _, _)
ParseElements(text, items, digits) ==
    IF text = <<>>
    THEN IF digits = <<>> THEN {}
         ELSE {[kind |-> "array", items |-> Append(items, NumberValue(digits))]}
    ELSE IF Head(text) = ","
    THEN IF digits = <<>> THEN {}
         ELSE ParseElements(Tail(text), Append(items, NumberValue(digits)), <<>>)
    ELSE IF IsDigit(Head(text)) /\ digits # <<"0">>
    THEN ParseElements(Tail(text), items, Append(digits, Head(text)))
    ELSE {}

JSONParse(text) ==
    IF text = NullText THEN {[kind |-> "null", items |-> <<>>]}
    ELSE IF Len(text) < 2 \/ text[1] # "[" \/ text[Len(text)] # "]" THEN {}
    ELSE IF Len(text) = 2 THEN {[kind |-> "array", items |-> <<>>]}
    ELSE ParseElements(SubSeq(text, 2, Len(text) - 1), <<>>, <<>>)

----------------------------------------------------------------------------
(* The list request and the service *)

\* BuildParams with the search text tested and sent as typed, untrimmed
BuildParamsUntrimmed(query, f, page) ==
    LET keys == {"page", "page_size"}
                \cup (IF query # <<>> THEN {"search"} ELSE {})
                \cup (IF Len(f.genres) > 0 THEN {"genres"} ELSE {})
                \cup (IF Len(f.platforms) > 0 THEN {"platforms"} ELSE {})
                \cup (IF f.ordering # "" THEN {"ordering"} ELSE {})
                \cup (IF f.metacritic # "" THEN {"metacritic"} ELSE {})
    IN  [k \in keys |->
            CASE k = "page" -> page
              [] k = "page_size" -> PageSize
              [] k = "search" -> query
              [] k = "genres" -> Join(f.genres)
              [] k = "platforms" -> Join(f.platforms)
              [] k = "ordering" -> f.ordering
              [] k = "metacritic" -> f.metacritic]

\* loadGames: the params object built for getGames
BuildParams(query, f, page) ==
    LET keys == {"page", "page_size"}
                \cup (IF Trim(query) # <<>> THEN {"search"} ELSE {})
                \cup (IF Len(f.genres) > 0 THEN {"genres"} ELSE {})
                \cup (IF Len(f.platforms) > 0 THEN {"platforms"} ELSE {})
                \cup (IF f.ordering # "" THEN {"ordering"} ELSE {})
                \cup (IF f.metacritic # "" THEN {"metacritic"} ELSE {})
    IN  [k \in keys |->
            CASE k = "page" -> page
              [] k = "page_size" -> PageSize
              [] k = "search" -> Trim(query)
              [] k = "genres" -> Join(f.genres)
              [] k = "platforms" -> Join(f.platforms)
              [] k = "ordering" -> f.ordering
              [] k = "metacritic" -> f.metacritic]

\* fetchData: a parameter with an empty value is not appended to the URL
IsBlank(k, v) ==
    /\ k \notin {"page", "page_size"}
    /\ v = (IF k = "search" THEN <<>> ELSE "")

\* getGames / fetchData: the query parameters of the URL that is fetched
SentParams(params) ==
    LET merged == [k \in DOMAIN params \cup {"page_size"} |->
                      IF k \in DOMAIN params THEN params[k] ELSE PageSize]
    IN  [k \in {x \in DOMAIN merged : ~IsBlank(x, merged[x])} |-> merged[k]]

\* what selects the list, the page number apart
QueryOf(params) == [k \in DOMAIN params \ {"page"} |-> params[k]]

\* the pages the service holds for a query
ServerPages(params) == IF "search" \in DOMAIN params THEN 1 ELSE MaxPages

\* the games of a page, in server order
PageResults(params) ==
    LET n == IF params.page < ServerPages(params) THEN ItemsPerPage ELSE 1
    IN  [i \in 1..n |-> [id |-> (params.page - 1) * ItemsPerPage + i,
                         query |-> QueryOf(params),
                         page |-> params.page]]

\* response.next of a page
PageNext(params) == params.page < ServerPages(params)

\* the service answers 404 for a page past the last one
PageExists(params) == params.page <= ServerPages(params)

\* what fetch gives a call: the transport fails, or a response with a status
NetworkError == [kind |-> "networkError", status |-> 0]

HttpResponse(status) == [kind |-> "http", status |-> status]

\* no call settled in the task
NoResponse == [kind |-> "none", status |-> 0]

\* response.ok
ResponseOk(response) == response.status >= StatusOk /\ response.status <= StatusOkLast

\* fetchData with the status of the response ignored
fetchDataIgnoresStatus(response) ==
    IF response.kind = "networkError" THEN "rejected" ELSE "resolved"

\* fetchData from its fetch on: how the promise it returned settles
fetchData(response) ==
    IF response.kind = "networkError" THEN "rejected"
    ELSE IF ~ResponseOk(response) THEN "rejected"
    ELSE "resolved"

\* what the network and the service may give a list call
Responses(params) ==
    {NetworkError, HttpResponse(StatusServerError)}
    \cup (IF PageExists(params) THEN {HttpResponse(StatusOk)}
          ELSE {HttpResponse(StatusNotFound)})

\* what they may give a call for the details, screenshots or trailers of a game
DetailResponses == {NetworkError, HttpResponse(StatusServerError), HttpResponse(StatusOk)}

----------------------------------------------------------------------------
(* GameGrid: state, closures and rendering *)

GridState == [games |-> games, isLoading |-> isLoading, isLoadingMore |-> isLoadingMore,
              error |-> error, hasMore |-> hasMore, currentPage |-> currentPage]

Props == [searchQuery |-> searchQuery, filters |-> filters,
          showFavoritesOnly |-> showingFavorites]

\* the state after the queued setState calls `upd` are applied
Apply(st, upd) == [k \in DOMAIN st |-> IF k \in DOMAIN upd THEN upd[k] ELSE st[k]]

\* loadGames without its favorites-only branch: it sends a request in either mode
loadGamesAlwaysFetches(props, page, reset) ==
    [set |-> IF page = 1 THEN [isLoading |-> TRUE] ELSE [isLoadingMore |-> TRUE],
     issue |-> {[params |-> SentParams(BuildParams(props.searchQuery, props.filters, page)),
                 page |-> page, reset |-> reset]}]

\* loadGames up to its await: the setState calls it makes and the request it sends
loadGames(props, page, reset) ==
    IF props.showFavoritesOnly
    THEN [set |-> [isLoading |-> FALSE, isLoadingMore |-> FALSE], issue |-> {}]
    ELSE [set |-> IF page = 1 THEN [isLoading |-> TRUE] ELSE [isLoadingMore |-> TRUE],
          issue |-> {[params |-> SentParams(BuildParams(props.searchQuery, props.filters, page)),
                      page |-> page, reset |-> reset]}]

\* loadGamesResolved with the reset flag ignored: the results are always appended
loadGamesResolvedAppends(st, req) ==
    Apply(st, [games |-> st.games \o PageResults(req.params),
               hasMore |-> PageNext(req.params),
               currentPage |-> req.page,
               error |-> {},
               isLoading |-> FALSE,
               isLoadingMore |-> FALSE])

\* loadGamesResolved with the reset flag ignored: the results always replace games
loadGamesResolvedReplaces(st, req) ==
    Apply(st, [games |-> PageResults(req.params),
               hasMore |-> PageNext(req.params),
               currentPage |-> req.page,
               error |-> {},
               isLoading |-> FALSE,
               isLoadingMore |-> FALSE])

\* loadGames after its await, the response received: try body, then finally
loadGamesResolved(st, req) ==
    Apply(st, [games |-> IF req.reset THEN PageResults(req.params)
                          ELSE st.games \o PageResults(req.params),
               hasMore |-> PageNext(req.params),
               currentPage |-> req.page,
               error |-> {},
               isLoading |-> FALSE,
               isLoadingMore |-> FALSE])

\* loadGamesRejected with the error only logged: setError is not called
loadGamesRejectedLogsOnly(st, req) ==
    Apply(st, [isLoading |-> FALSE, isLoadingMore |-> FALSE])

\* loadGamesRejected without its finally block: the loading flags stay as set
loadGamesRejectedKeepsLoading(st, req) == Apply(st, [error |-> {LoadError}])

\* loadGames after its await, the call rejected: catch, then finally
loadGamesRejected(st, req) ==
    Apply(st, [error |-> {LoadError}, isLoading |-> FALSE, isLoadingMore |-> FALSE])

\* displayGames
DisplayGames(st, props, favs) ==
    IF props.showFavoritesOnly
    THEN SelectSeq(st.games, LAMBDA g : Includes(favs, g.id))
    ELSE st.games

\* which of the component's returns renders
View(st, props, favs) ==
    IF st.isLoading THEN "loading"
    ELSE IF st.error # {} THEN "error"
    ELSE IF props.showFavoritesOnly /\ Len(favs) = 0 THEN "noFavorites"
    ELSE IF Len(DisplayGames(st, props, favs)) = 0 THEN "empty"
    ELSE "list"

\* the infinite scroll trigger element is rendered
SentinelRendered(st, props, favs) ==
    /\ View(st, props, favs) = "list"
    /\ ~props.showFavoritesOnly
    /\ st.hasMore
    /\ ~st.isLoadingMore

\* useCallback(loadMore, [currentPage, isLoadingMore, hasMore, showFavoritesOnly]):
\* the function kept from the last render in which a dependency changed
UseCallback(memo, st, props) ==
    IF /\ memo.currentPage = st.currentPage
       /\ memo.isLoadingMore = st.isLoadingMore
       /\ memo.hasMore = st.hasMore
       /\ memo.props.showFavoritesOnly = props.showFavoritesOnly
    THEN memo
    ELSE [currentPage |-> st.currentPage, isLoadingMore |-> st.isLoadingMore,
          hasMore |-> st.hasMore, props |-> props]

NoObserver == [armed |-> FALSE, loadMore |-> {}]

\* the observer effect, run after a render whose [games, isLoading, isLoadingMore,
\* hasMore] changed: the previous observer is disconnected, a new one observes the
\* trigger element if it is rendered
ObserverEffect(st, props, favs, memo) ==
    IF st.isLoading \/ st.isLoadingMore \/ ~st.hasMore THEN NoObserver
    ELSE IF SentinelRendered(st, props, favs) THEN [armed |-> TRUE, loadMore |-> {memo}]
    ELSE NoObserver

\* ObserverKept with the trigger element taken to stay in the page
ObserverKeptAttached(obs, st, props, favs) == obs

\* a render that leaves the effect's dependencies alone: the observer stays, and
\* observes nothing once its element is unmounted
ObserverKept(obs, st, props, favs) ==
    IF obs.armed /\ ~SentinelRendered(st, props, favs) THEN NoObserver ELSE obs

\* loadMore as a closure: the loadGames call it makes, if any
loadMore(cb) ==
    IF ~cb.isLoadingMore /\ cb.hasMore /\ ~cb.props.showFavoritesOnly
    THEN loadGames(cb.props, cb.currentPage + 1, FALSE)
    ELSE [set |-> <<>>, issue |-> {}]

\* ResetEffect without its setCurrentPage(1)
ResetEffectKeepsPage(st, props) ==
    LET lg == loadGames(props, 1, TRUE)
    IN  [st |-> Apply(Apply(st, [games |-> <<>>, hasMore |-> TRUE, error |-> {}]), lg.set),
         issue |-> lg.issue]

\* the reset effect, run after a render whose [searchQuery, filters,
\* showFavoritesOnly] changed, with the props of that render
ResetEffect(st, props) ==
    LET lg == loadGames(props, 1, TRUE)
    IN  [st |-> Apply(Apply(st, [games |-> <<>>, currentPage |-> 1,
                                 hasMore |-> TRUE, error |-> {}]), lg.set),
         issue |-> lg.issue]

\* the observer effect's dependencies differ between two renders
ObserverDepsChanged(st, st2, newGames) ==
    \/ newGames
    \/ st.isLoading # st2.isLoading
    \/ st.isLoadingMore # st2.isLoadingMore
    \/ st.hasMore # st2.hasMore

\* the render that ends a task of the component: its state, the memoized
\* loadMore, and the observer
Commit(st2, props2, favs, memo, newGames) ==
    /\ games' = st2.games
    /\ isLoading' = st2.isLoading
    /\ isLoadingMore' = st2.isLoadingMore
    /\ error' = st2.error
    /\ hasMore' = st2.hasMore
    /\ currentPage' = st2.currentPage
    /\ loadMoreCb' = UseCallback(memo, st2, props2)
    /\ observer' = IF ObserverDepsChanged(GridState, st2, newGames)
                   THEN ObserverEffect(st2, props2, favs, loadMoreCb')
                   ELSE ObserverKept(observer, st2, props2, favs)

\* the calls in `issue`, as they wait for their response
Awaiting(issue, stale) ==
    SetToBag({[params |-> r.params, page |-> r.page, reset |-> r.reset,
               superseded |-> stale] : r \in issue})

\* the bag B with every call marked superseded
Superseded(B) ==
    LET mark(r) == [r EXCEPT !.superseded = TRUE]
    IN  [y \in {mark(r) : r \in BagToSet(B)} |->
            CopiesIn(y, B) + CopiesIn([y EXCEPT !.superseded = FALSE], B)]

\* a call of the service is sent only while the network has room for it
Send(waiting, issue, stale) ==
    /\ BagCardinality(waiting) + Cardinality(issue) <= MaxInFlight
    /\ inflight' = waiting (+) Awaiting(issue, stale)

\* GameGrid after its props changed: the render with the new props, the reset
\* effect, and the render of the state it set
PropsChanged(props2) ==
    LET memo == UseCallback(loadMoreCb, GridState, props2)
        r == ResetEffect(GridState, props2)
    IN  /\ Send(Superseded(inflight), r.issue, FALSE)
        /\ Commit(r.st, props2, favorites, memo, TRUE)

----------------------------------------------------------------------------
(* App *)

hasActiveFilters(f) ==
    \/ Len(f.genres) > 0
    \/ Len(f.platforms) > 0
    \/ f.ordering # ""
    \/ f.metacritic # ""

\* the show-filters effect without showingFavorites in its condition
ShowFiltersEffectIgnoresFavorites(query, f, fav) ==
    Len(Trim(query)) > 0 \/ hasActiveFilters(f)

\* the effect that sets showFilters
ShowFiltersEffect(query, f, fav) ==
    Len(Trim(query)) > 0 \/ hasActiveFilters(f) \/ fav

shouldShowTrending ==
    /\ Len(Trim(searchQuery)) = 0
    /\ ~showingFavorites
    /\ Len(filters.genres) = 0
    /\ Len(filters.platforms) = 0
    /\ filters.ordering = ""
    /\ filters.metacritic = ""

\* TrendingSection as it is mounted: nothing loaded, loadTrendingData called
TrendingMounted ==
    /\ trendingGames' = <<>>
    /\ upcomingGames' = <<>>
    /\ trendingLoading' = TRUE
    /\ currentTrendingIndex' = 0
    /\ currentUpcomingIndex' = 0

\* the state App renders after a handler, and what it causes in GameGrid and
\* in TrendingSection, which is unmounted while shouldShowTrending is false
\* and mounted anew when it is true again
AppUpdate(query, f, fav, newFilters) ==
    /\ searchQuery' = query
    /\ filters' = f
    /\ showingFavorites' = fav
    /\ showFilters' = ShowFiltersEffect(query, f, fav)
    /\ ~failed
    /\ UNCHANGED <<favorites, localStorage, modalVars, failed, startVars, toggleHistory>>
    /\ IF shouldShowTrending /\ shouldShowTrending'
       THEN UNCHANGED trendingVars
       ELSE TrendingMounted
    /\ lastResponse' = NoResponse
    /\ emptyAtSwitch' = IF fav /\ ~showingFavorites THEN games = <<>>
                        ELSE fav /\ emptyAtSwitch
    /\ IF newFilters \/ query # searchQuery \/ fav # showingFavorites
       THEN PropsChanged([searchQuery |-> query, filters |-> f, showFavoritesOnly |-> fav])
       ELSE UNCHANGED <<gridVars, inflight>>

\* Storage.setItem
SetItem(ls, key, value) == [ls EXCEPT ![key] = {value}]

\* the load effect, run once on mount: the favorites it hands to setFavorites,
\* if any
LoadFavoritesEffect(ls) ==
    UNION {JSONParse(savedFavorites) : savedFavorites \in ls[FavoritesKey] \ {<<>>}}

\* the save effect with its setItem left out
SaveFavoritesEffectSkipped(ls, favs) == ls

\* the save effect, run after the first render and after each render in which
\* favorites changed
SaveFavoritesEffect(ls, favs) == SetItem(ls, FavoritesKey, JSONStringify(favs))

\* App's render of the value handed to setFavorites reads favorites.length,
\* which throws a TypeError if the value is null
RenderThrows(value) == value.kind = "null"

\* the favorites and the storage once App is mounted over the storage `ls`:
\* both effects run after the first render, the save effect again after the
\* render of the loaded favorites; if that render throws, nothing is rendered
\* any more and favorites is the list last rendered
Mounted(ls) ==
    LET loaded == LoadFavoritesEffect(ls)
        saved == SaveFavoritesEffect(ls, <<>>)
        value == CHOOSE v \in loaded : TRUE
    IN  IF loaded = {}
        THEN [favorites |-> <<>>, localStorage |-> saved, failed |-> FALSE]
        ELSE IF RenderThrows(value)
        THEN [favorites |-> <<>>, localStorage |-> saved, failed |-> TRUE]
        ELSE [favorites |-> value.items,
              localStorage |-> SaveFavoritesEffect(saved, value.items),
              failed |-> FALSE]

\* what localStorage may hold at startup: nothing, the empty text, text cut
\* short, null, or a list written earlier
PersistedInputs ==
    {EmptyStorage}
    \cup {SetItem(EmptyStorage, FavoritesKey, t) : t \in {<<>>, <<"[", "1">>, NullText}}
    \cup {SaveFavoritesEffect(EmptyStorage, f) :
             f \in UNION {[1..n -> FavoriteIds] : n \in 0..MaxPersisted}}

\* the loaded favorites are on screen: a click can reach a handler
Started == ~mountPending /\ pendingFavorites = {}

\* handleToggleFavorite with the id always appended
ToggleFavoriteAppends(prev, gameId) == Append(prev, gameId)

\* handleToggleFavorite with a new id put first
ToggleFavoritePrepends(prev, gameId) ==
    IF Includes(prev, gameId) THEN Without(prev, gameId) ELSE <<gameId>> \o prev

\* handleToggleFavorite without its removing branch: a favorite stays one
ToggleFavoriteNeverRemoves(prev, gameId) ==
    IF Includes(prev, gameId) THEN prev ELSE Append(prev, gameId)

\* the updater handleToggleFavorite hands to setFavorites
ToggleFavorite(prev, gameId) ==
    IF Includes(prev, gameId) THEN Without(prev, gameId) ELSE Append(prev, gameId)

\* a heart button for the game is on screen: on its card in the list, or in
\* the details of a game picked from the trending section
HeartShown(gameId) ==
    \/ gameId \in selectedGame
    \/ shouldShowTrending
    \/ /\ View(GridState, Props, favorites) = "list"
       /\ \E i \in 1..Len(DisplayGames(GridState, Props, favorites)) :
              DisplayGames(GridState, Props, favorites)[i].id = gameId

\* a heart button: onToggleFavorite(gameId); GameGrid renders the new favorites
handleToggleFavorite ==
    /\ \E gameId \in FavoriteIds :
          /\ HeartShown(gameId)
          /\ favorites' = ToggleFavorite(favorites, gameId)
          /\ localStorage' = SaveFavoritesEffect(localStorage, favorites')
          /\ Commit(GridState, Props, favorites', loadMoreCb, FALSE)
          /\ toggleHistory' = [toggleHistory EXCEPT !.toggled =
                                  IF gameId \in @ THEN @ \ {gameId} ELSE @ \cup {gameId}]
    /\ ~failed
    /\ Started
    /\ UNCHANGED <<appVars, emptyAtSwitch, inflight, modalVars, failed, startVars, trendingVars>>
    /\ lastResponse' = NoResponse
    /\ lastEvent' = "handleToggleFavorite"

\* Header's search form: onSearch(query)
handleSearch ==
    \E query \in SearchInputs :
        /\ AppUpdate(query, filters, FALSE, FALSE)
        /\ lastEvent' = "handleSearch"

\* handleToggleFavorites without its clearing branch: only the mode is flipped
handleToggleFavoritesKeepsSearch ==
    /\ AppUpdate(searchQuery, filters, ~showingFavorites, FALSE)
    /\ lastEvent' = "handleToggleFavorites"

\* Header's favorites button
handleToggleFavorites ==
    /\ IF ~showingFavorites
       THEN AppUpdate(<<>>, EmptyFilters, TRUE, TRUE)
       ELSE AppUpdate(searchQuery, filters, FALSE, FALSE)
    /\ lastEvent' = "handleToggleFavorites"

\* GameFilters: the filter objects its controls pass to onFiltersChange
FilterEdits(f) ==
    {[f EXCEPT !.genres = IF Includes(f.genres, g) THEN Without(f.genres, g)
                          ELSE Append(f.genres, g)] : g \in GenreIds}
    \cup {[f EXCEPT !.platforms = IF Includes(f.platforms, x) THEN Without(f.platforms, x)
                                  ELSE Append(f.platforms, x)] : x \in PlatformIds}
    \cup {[f EXCEPT !.ordering = o] : o \in OrderingOptions \ {f.ordering}}
    \cup {[f EXCEPT !.metacritic = m] : m \in MetacriticOptions \ {f.metacritic}}

\* GameFilters -> onFiltersChange(newFilters); the bar is rendered if showFilters
handleFiltersChange ==
    /\ showFilters
    /\ \E f \in FilterEdits(filters) : AppUpdate(searchQuery, f, FALSE, TRUE)
    /\ lastEvent' = "handleFiltersChange"

\* GameFilters' clear button, rendered if a filter is active
clearAllFilters ==
    /\ showFilters
    /\ hasActiveFilters(filters)
    /\ AppUpdate(<<>>, EmptyFilters, showingFavorites, TRUE)
    /\ lastEvent' = "clearAllFilters"

----------------------------------------------------------------------------
(* GameDetailsModal, and the handlers of App that open and close it *)

\* the games whose card a user clicks
DetailIds == 1..MaxDetailIds

\* the three calls loadGameDetails hands to Promise.all
DetailParts == {"details", "screenshots", "trailers"}

\* a card of the game is on screen, in the list or in the trending section,
\* and the dialog does not cover it; which games the carousels of the section
\* hold is left open here, their loading is a task of SpecCarousel only
CardShown(gameId) ==
    /\ selectedGame = {}
    /\ \/ shouldShowTrending
       \/ /\ View(GridState, Props, favorites) = "list"
          /\ \E i \in 1..Len(DisplayGames(GridState, Props, favorites)) :
                 DisplayGames(GridState, Props, favorites)[i].id = gameId

\* loadGameDetails up to its await: the group of calls it sends
loadGameDetails(gameId) == [game |-> gameId, pending |-> DetailParts]

\* a card is clicked: handleGameClick(game); the modal's effect on [game, isOpen]
\* then calls loadGameDetails
handleGameClick ==
    /\ ~failed
    /\ BagCardinality(detailGroups) < MaxGroups
    /\ \E gameId \in DetailIds :
          /\ CardShown(gameId)
          /\ selectedGame' = {gameId}
          /\ detailsLoading' = TRUE
          /\ detailGroups' = detailGroups (+) SetToBag({loadGameDetails(gameId)})
    /\ UNCHANGED <<gameDetails, screenshots, trailers>>
    /\ UNCHANGED <<appVars, favorites, localStorage, emptyAtSwitch, gridVars, inflight, failed, startVars, toggleHistory, trendingVars>>
    /\ lastResponse' = NoResponse
    /\ lastEvent' = "handleGameClick"

\* the dialog is closed: handleCloseModal; the effect runs and does nothing
handleCloseModal ==
    /\ ~failed
    /\ selectedGame # {}
    /\ selectedGame' = {}
    /\ UNCHANGED <<gameDetails, screenshots, trailers, detailsLoading, detailGroups>>
    /\ UNCHANGED <<appVars, favorites, localStorage, emptyAtSwitch, gridVars, inflight, failed, startVars, toggleHistory, trendingVars>>
    /\ lastResponse' = NoResponse
    /\ lastEvent' = "handleCloseModal"

\* loadGameDetails after its await resolved: Promise.all resolves with the
\* last of its three calls; try body, then finally
loadGameDetailsResolved(group) ==
    /\ gameDetails' = {group.game}
    /\ screenshots' = {group.game}
    /\ trailers' = {group.game}
    /\ detailsLoading' = FALSE

\* loadGameDetails after its await rejected: Promise.all rejects with the
\* first of its calls that rejects; catch, then finally
loadGameDetailsRejected(group) ==
    /\ UNCHANGED <<gameDetails, screenshots, trailers>>
    /\ detailsLoading' = FALSE

\* a call of a group resolves
DetailResolve ==
    /\ ~failed
    /\ \E group \in BagToSet(detailGroups) :
          \E part \in group.pending :
             \E response \in DetailResponses :
                /\ fetchData(response) = "resolved"
                /\ lastResponse' = response
                /\ IF group.pending = {part}
                   THEN /\ loadGameDetailsResolved(group)
                        /\ detailGroups' = detailGroups (-) SetToBag({group})
                   ELSE /\ UNCHANGED <<gameDetails, screenshots, trailers, detailsLoading>>
                        /\ detailGroups' = (detailGroups (-) SetToBag({group}))
                              (+) SetToBag({[group EXCEPT !.pending = @ \ {part}]})
    /\ UNCHANGED <<selectedGame>>
    /\ UNCHANGED <<appVars, favorites, localStorage, emptyAtSwitch, gridVars, inflight, failed, startVars, toggleHistory, trendingVars>>
    /\ lastEvent' = "detailResolve"

\* a call of a group rejects; what its other calls bring later is dropped
DetailReject ==
    /\ ~failed
    /\ \E group \in BagToSet(detailGroups) :
          \E part \in group.pending :
             \E response \in DetailResponses :
                /\ fetchData(response) = "rejected"
                /\ lastResponse' = response
                /\ loadGameDetailsRejected(group)
                /\ detailGroups' = detailGroups (-) SetToBag({group})
    /\ UNCHANGED <<selectedGame>>
    /\ UNCHANGED <<appVars, favorites, localStorage, emptyAtSwitch, gridVars, inflight, failed, startVars, toggleHistory, trendingVars>>
    /\ lastEvent' = "detailReject"

----------------------------------------------------------------------------
(* GameGrid: its tasks *)

\* the Try Again button of the error view
Retry ==
    /\ View(GridState, Props, favorites) = "error"
    /\ LET lg == loadGames(Props, 1, TRUE)
       IN  /\ Send(inflight, lg.issue, FALSE)
           /\ Commit(Apply(GridState, lg.set), Props, favorites, loadMoreCb, FALSE)
    /\ ~failed
    /\ UNCHANGED <<appVars, favorites, localStorage, emptyAtSwitch, modalVars, failed, startVars, toggleHistory, trendingVars>>
    /\ lastResponse' = NoResponse
    /\ lastEvent' = "retry"

\* Intersect with an observer that is never disconnected: it calls the current
\* loadMore whatever is rendered
IntersectUnguarded ==
    /\ LET lg == loadMore(loadMoreCb)
       IN  /\ Send(inflight, lg.issue, loadMoreCb.props # Props)
           /\ Commit(Apply(GridState, lg.set), Props, favorites, loadMoreCb, FALSE)
    /\ ~failed
    /\ UNCHANGED <<appVars, favorites, localStorage, emptyAtSwitch, modalVars, failed, startVars, toggleHistory, trendingVars>>
    /\ lastResponse' = NoResponse
    /\ lastEvent' = "intersect"

\* the bottom of the list scrolls into view: the observer, if one observes the
\* trigger element, calls the loadMore it was created with
Intersect ==
    /\ IF observer.armed
       THEN \E cb \in observer.loadMore :
               LET lg == loadMore(cb)
               IN  /\ Send(inflight, lg.issue, cb.props # Props)
                   /\ Commit(Apply(GridState, lg.set), Props, favorites, loadMoreCb, FALSE)
       ELSE UNCHANGED <<gridVars, inflight>>
    /\ ~failed
    /\ UNCHANGED <<appVars, favorites, localStorage, emptyAtSwitch, modalVars, failed, startVars, toggleHistory, trendingVars>>
    /\ lastResponse' = NoResponse
    /\ lastEvent' = "intersect"

\* a getGames call resolves: the status of its response was 2xx
Resolve ==
    /\ ~failed
    /\ \E req \in BagToSet(inflight) :
          \E response \in Responses(req.params) :
             /\ fetchData(response) = "resolved"
             /\ lastResponse' = response
             /\ inflight' = inflight (-) SetToBag({req})
             /\ Commit(loadGamesResolved(GridState, req), Props, favorites, loadMoreCb, TRUE)
    /\ UNCHANGED <<appVars, favorites, localStorage, emptyAtSwitch, modalVars, failed, startVars, toggleHistory, trendingVars>>
    /\ lastEvent' = "resolve"

\* a getGames call rejects: the transport failed or the status was not 2xx
Reject ==
    /\ ~failed
    /\ \E req \in BagToSet(inflight) :
          \E response \in Responses(req.params) :
             /\ fetchData(response) = "rejected"
             /\ lastResponse' = response
             /\ inflight' = inflight (-) SetToBag({req})
             /\ Commit(loadGamesRejected(GridState, req), Props, favorites, loadMoreCb, FALSE)
    /\ UNCHANGED <<appVars, favorites, localStorage, emptyAtSwitch, modalVars, failed, startVars, toggleHistory, trendingVars>>
    /\ lastEvent' = "reject"

----------------------------------------------------------------------------
(* The application once mounted: GameGrid's first render ran its reset effect *)

InitProps == [searchQuery |-> <<>>, filters |-> EmptyFilters, showFavoritesOnly |-> FALSE]

InitGrid == [games |-> <<>>, isLoading |-> TRUE, isLoadingMore |-> FALSE,
             error |-> {}, hasMore |-> TRUE, currentPage |-> 1]

\* the props of GameGrid for a search text and filters, outside favorites-only
\* mode
PropsAt(query, f) == [searchQuery |-> query, filters |-> f, showFavoritesOnly |-> FALSE]

\* the application showing the search text `query` and the filters `f`, as
\* the reset effect leaves it: games emptied, the page 1 call in flight
InitAt(ls, query, f) ==
    /\ searchQuery = query
    /\ filters = f
    /\ showingFavorites = FALSE
    /\ showFilters = ShowFiltersEffect(query, f, FALSE)
    /\ favorites = Mounted(ls).favorites
    /\ localStorage = Mounted(ls).localStorage
    /\ failed = Mounted(ls).failed
    /\ mountPending = FALSE
    /\ pendingFavorites = {}
    /\ toggleHistory = [start |-> Mounted(ls).favorites, toggled |-> {}]
    /\ trendingGames = <<>>
    /\ upcomingGames = <<>>
    /\ trendingLoading = TRUE
    /\ currentTrendingIndex = 0
    /\ currentUpcomingIndex = 0
    /\ selectedGame = {}
    /\ gameDetails = {}
    /\ screenshots = {}
    /\ trailers = {}
    /\ detailsLoading = FALSE
    /\ detailGroups = EmptyBag
    /\ lastResponse = NoResponse
    /\ emptyAtSwitch = FALSE
    /\ games = ResetEffect(InitGrid, PropsAt(query, f)).st.games
    /\ isLoading = ResetEffect(InitGrid, PropsAt(query, f)).st.isLoading
    /\ isLoadingMore = ResetEffect(InitGrid, PropsAt(query, f)).st.isLoadingMore
    /\ error = ResetEffect(InitGrid, PropsAt(query, f)).st.error
    /\ hasMore = ResetEffect(InitGrid, PropsAt(query, f)).st.hasMore
    /\ currentPage = ResetEffect(InitGrid, PropsAt(query, f)).st.currentPage
    /\ loadMoreCb = [currentPage |-> 1, isLoadingMore |-> FALSE, hasMore |-> TRUE,
                     props |-> PropsAt(query, f)]
    /\ observer = NoObserver
    /\ inflight = Awaiting(ResetEffect(InitGrid, PropsAt(query, f)).issue, FALSE)
    /\ lastEvent = "mount"

\* the application once mounted over the storage `ls`
InitOver(ls) == InitAt(ls, <<>>, EmptyFilters)

\* a first visit: nothing in storage
Init == InitOver(EmptyStorage)

Next ==
    \/ handleSearch
    \/ handleToggleFavorites
    \/ handleFiltersChange
    \/ clearAllFilters
    \/ Retry
    \/ Intersect
    \/ Resolve
    \/ Reject

Spec == Init /\ [][Next]_vars

\* the favorites store over every storage found at startup, with the heart
\* buttons and the favorites button of the header, while the service is silent
InitStore == \E ls \in PersistedInputs : InitOver(ls)

NextStore ==
    \/ handleToggleFavorite
    \/ handleToggleFavorites

SpecStore == InitStore /\ [][NextStore]_vars

\* the list together with the heart buttons, started with or without a
\* favorite in storage
InitFav == \E ls \in {EmptyStorage, SaveFavoritesEffect(EmptyStorage, <<1>>)} : InitOver(ls)

NextFav ==
    \/ Next
    \/ handleToggleFavorite

SpecFav == InitFav /\ [][NextFav]_vars

\* the details dialog, opened from the trending section of a first visit,
\* while the list call stays unanswered
NextDetail ==
    \/ handleGameClick
    \/ handleCloseModal
    \/ DetailResolve
    \/ DetailReject

SpecDetail == Init /\ [][NextDetail]_vars

\* the search texts and filters the requests are built from
ParamQueries == {<<>>, <<" ">>, <<"m">>, <<" ", "m", " ">>}

ParamFilters ==
    [genres : {<<>>, <<"4">>, <<"4", "51">>},
     platforms : {<<>>, <<"1", "18">>},
     ordering : {"", "-rating"},
     metacritic : {"", "80,100"}]

\* the list under each search text and filters, with its trigger and its
\* Try Again button, while the user leaves the search and the filters alone
InitParams == \E query \in ParamQueries : \E f \in ParamFilters : InitAt(EmptyStorage, query, f)

NextParams ==
    \/ Retry
    \/ Intersect
    \/ Resolve
    \/ Reject

SpecParams == InitParams /\ [][NextParams]_vars

\* the list with its trigger, its Try Again button and the favorites button,
\* which changes the descriptor in both directions, on a network that in the
\* end answers or fails a call that is waiting
NextLive ==
    \/ handleToggleFavorites
    \/ Retry
    \/ Intersect
    \/ Resolve
    \/ Reject

SpecLive == Init /\ [][NextLive]_vars /\ WF_vars(Resolve \/ Reject)

\* App as its first render leaves it over the storage `ls`: every useState at
\* its initial value, no effect run yet
InitRendered(ls) ==
    /\ searchQuery = <<>>
    /\ filters = EmptyFilters
    /\ showingFavorites = FALSE
    /\ showFilters = FALSE
    /\ favorites = <<>>
    /\ localStorage = ls
    /\ failed = FALSE
    /\ mountPending = TRUE
    /\ pendingFavorites = {}
    /\ toggleHistory = [start |-> <<>>, toggled |-> {}]
    /\ trendingGames = <<>>
    /\ upcomingGames = <<>>
    /\ trendingLoading = TRUE
    /\ currentTrendingIndex = 0
    /\ currentUpcomingIndex = 0
    /\ selectedGame = {}
    /\ gameDetails = {}
    /\ screenshots = {}
    /\ trailers = {}
    /\ detailsLoading = FALSE
    /\ detailGroups = EmptyBag
    /\ lastResponse = NoResponse
    /\ emptyAtSwitch = FALSE
    /\ games = InitGrid.games
    /\ isLoading = InitGrid.isLoading
    /\ isLoadingMore = InitGrid.isLoadingMore
    /\ error = InitGrid.error
    /\ hasMore = InitGrid.hasMore
    /\ currentPage = InitGrid.currentPage
    /\ loadMoreCb = [currentPage |-> 1, isLoadingMore |-> FALSE, hasMore |-> TRUE,
                     props |-> InitProps]
    /\ observer = NoObserver
    /\ inflight = EmptyBag
    /\ lastEvent = "render"

\* the effects of the first commit, children first: GameGrid's reset effect,
\* then App's load effect, save effect and show-filters effect; the load
\* effect's setFavorites waits for the next render
MountEffects ==
    /\ mountPending
    /\ ~failed
    /\ LET r == ResetEffect(GridState, Props)
       IN  /\ Send(inflight, r.issue, FALSE)
           /\ Commit(r.st, Props, favorites, loadMoreCb, FALSE)
    /\ pendingFavorites' = LoadFavoritesEffect(localStorage)
    /\ localStorage' = SaveFavoritesEffect(localStorage, favorites)
    /\ showFilters' = ShowFiltersEffect(searchQuery, filters, showingFavorites)
    /\ mountPending' = FALSE
    /\ UNCHANGED <<searchQuery, filters, showingFavorites, favorites, emptyAtSwitch,
                   modalVars, failed, toggleHistory, trendingVars>>
    /\ lastResponse' = NoResponse
    /\ lastEvent' = "mount"

\* the render of the favorites the load effect set, and the save effect after
\* it; a render that throws leaves nothing on screen
LoadedFavoritesRendered ==
    /\ ~mountPending
    /\ pendingFavorites # {}
    /\ ~failed
    /\ LET value == CHOOSE v \in pendingFavorites : TRUE
       IN  IF RenderThrows(value)
           THEN /\ failed' = TRUE
                /\ UNCHANGED <<favorites, localStorage, gridVars, toggleHistory>>
           ELSE /\ favorites' = value.items
                /\ toggleHistory' = [start |-> favorites', toggled |-> {}]
                /\ localStorage' = SaveFavoritesEffect(localStorage, favorites')
                /\ Commit(GridState, Props, favorites', loadMoreCb, FALSE)
                /\ UNCHANGED failed
    /\ pendingFavorites' = {}
    /\ UNCHANGED <<appVars, emptyAtSwitch, inflight, modalVars, mountPending, trendingVars>>
    /\ lastResponse' = NoResponse
    /\ lastEvent' = "setFavorites"

\* the start of the application over every storage, up to the hearts
InitStartup == \E ls \in PersistedInputs : InitRendered(ls)

NextStartup ==
    \/ MountEffects
    \/ LoadedFavoritesRendered
    \/ handleToggleFavorite

SpecStartup == InitStartup /\ [][NextStartup]_vars

----------------------------------------------------------------------------
(* TrendingSection *)

\* Array.prototype.slice(0, end)
Slice(arr, end) == SubSeq(arr, 1, IF Len(arr) < end THEN Len(arr) ELSE end)

\* Math.max
Max(a, b) == IF a >= b THEN a ELSE b

\* the results a list call of the section may bring: games 1, 2, ...
CarouselResults == {[i \in 1..n |-> i] : n \in 0..MaxCarouselResults}

\* the updater of nextTrending with the wrap at the end of the array
NextIndexWrapsAtEnd(prev, n) == IF prev + 1 >= n THEN 0 ELSE prev + 1

\* the updater nextTrending and nextUpcoming hand to their setter, over a
\* carousel of n games
NextIndex(prev, n) == IF prev + 1 >= n - NextWrapOffset THEN 0 ELSE prev + 1

\* the updater prevTrending and prevUpcoming hand to their setter
PrevIndex(prev, n) == IF prev = 0 THEN Max(0, n - PrevWrapOffset) ELSE prev - 1

\* what a task of TrendingSection leaves alone outside the section
TrendingOnly ==
    /\ ~failed
    /\ Started
    /\ shouldShowTrending
    /\ UNCHANGED <<appVars, favorites, localStorage, emptyAtSwitch, gridVars, inflight,
                   modalVars, failed, startVars, toggleHistory>>
    /\ lastResponse' = NoResponse

\* loadTrendingData after its await resolved: both calls brought their results
loadTrendingDataResolved ==
    /\ trendingLoading
    /\ \E trending, upcoming \in CarouselResults :
          /\ trendingGames' = Slice(trending, CarouselLimit)
          /\ upcomingGames' = Slice(upcoming, CarouselLimit)
    /\ trendingLoading' = FALSE
    /\ UNCHANGED <<currentTrendingIndex, currentUpcomingIndex>>
    /\ TrendingOnly
    /\ lastEvent' = "loadTrendingDataResolved"

\* loadTrendingData after its await rejected: one of the calls failed
loadTrendingDataRejected ==
    /\ trendingLoading
    /\ trendingLoading' = FALSE
    /\ UNCHANGED <<trendingGames, upcomingGames, currentTrendingIndex, currentUpcomingIndex>>
    /\ TrendingOnly
    /\ lastEvent' = "loadTrendingDataRejected"

\* the buttons of a carousel are rendered once loading is over, if it has games
CarouselShown(carouselGames) == ~trendingLoading /\ Len(carouselGames) > 0

nextTrending ==
    /\ CarouselShown(trendingGames)
    /\ currentTrendingIndex' = NextIndex(currentTrendingIndex, Len(trendingGames))
    /\ UNCHANGED <<trendingGames, upcomingGames, trendingLoading, currentUpcomingIndex>>
    /\ TrendingOnly
    /\ lastEvent' = "nextTrending"

prevTrending ==
    /\ CarouselShown(trendingGames)
    /\ currentTrendingIndex' = PrevIndex(currentTrendingIndex, Len(trendingGames))
    /\ UNCHANGED <<trendingGames, upcomingGames, trendingLoading, currentUpcomingIndex>>
    /\ TrendingOnly
    /\ lastEvent' = "prevTrending"

nextUpcoming ==
    /\ CarouselShown(upcomingGames)
    /\ currentUpcomingIndex' = NextIndex(currentUpcomingIndex, Len(upcomingGames))
    /\ UNCHANGED <<trendingGames, upcomingGames, trendingLoading, currentTrendingIndex>>
    /\ TrendingOnly
    /\ lastEvent' = "nextUpcoming"

prevUpcoming ==
    /\ CarouselShown(upcomingGames)
    /\ currentUpcomingIndex' = PrevIndex(currentUpcomingIndex, Len(upcomingGames))
    /\ UNCHANGED <<trendingGames, upcomingGames, trendingLoading, currentTrendingIndex>>
    /\ TrendingOnly
    /\ lastEvent' = "prevUpcoming"

\* the trending section of a first visit with its two carousels, and the
\* favorites button, which unmounts the section and mounts it anew
NextCarousel ==
    \/ loadTrendingDataResolved
    \/ loadTrendingDataRejected
    \/ nextTrending
    \/ prevTrending
    \/ nextUpcoming
    \/ prevUpcoming
    \/ handleToggleFavorites

SpecCarousel == Init /\ [][NextCarousel]_vars

----------------------------------------------------------------------------
(* The list loader's contract *)

\* the request loadGames(1, true) sends under the props now rendered
InitialRequest ==
    [params |-> SentParams(BuildParams(searchQuery, filters, 1)),
     page |-> 1, reset |-> TRUE, superseded |-> FALSE]

\* this step is the completion of the call req
Completes(req) == inflight' = inflight (-) SetToBag({req})

\* the calls made under the props now rendered that await their response
ActiveFetches ==
    LET S == {r \in BagToSet(inflight) : ~r.superseded}
    IN  [r \in S |-> CopiesIn(r, inflight)]

LoadingInitial == isLoading

LoadingMore == isLoadingMore

Errored == ~isLoading /\ error # {}

Ready == ~isLoading /\ ~isLoadingMore /\ error = {} /\ hasMore

Exhausted == ~isLoading /\ ~isLoadingMore /\ error = {} /\ ~hasMore

\* C1: a response to a call made under superseded props (the search query, the
\* filters or the favorites-only flag changed after it was made) is not applied:
\* it changes none of games, hasMore, currentPage and error.
C1_SupersededResponseDiscarded ==
    [][\A req \in BagToSet(inflight) :
          (req.superseded /\ Completes(req) /\ lastEvent' \in {"resolve", "reject"})
          => UNCHANGED <<games, hasMore, currentPage, error>>]_vars

\* C2: at most one list call made under the props now rendered awaits its
\* response, in every reachable state.
C2_OneFetchInFlight == BagCardinality(ActiveFetches) <= 1

\* C3: the trigger element scrolling into view while isLoading or isLoadingMore
\* holds sends no call and changes no state of the list.
C3_TriggerWhileLoadingIsNoOp ==
    [][((LoadingInitial \/ LoadingMore) /\ lastEvent' = "intersect")
       => UNCHANGED <<gridVars, inflight, appVars, favorites>>]_vars

C3_Witness ==
    /\ lastEvent = "intersect"
    /\ isLoading
    /\ Len(games) > 0
    /\ BagCardinality(inflight) > 0

\* C4: while hasMore is false the trigger sends no call and changes no state
\* of the list, and the list leaves Exhausted only when the props change.
C4_ExhaustedIsTerminal ==
    [][/\ (~hasMore /\ lastEvent' = "intersect")
          => UNCHANGED <<gridVars, inflight, appVars, favorites>>
       /\ (Exhausted /\ ~Exhausted') => Props' # Props]_vars

\* C5: whenever a list call awaits its response, exactly one of isLoading and
\* isLoadingMore is true.
C5_ExactlyOneLoadingFlag ==
    BagCardinality(inflight) > 0 => (isLoading # isLoadingMore)

\* C6: while the props stay the same, the length of games never decreases.
C6_ItemsNonDecreasing ==
    [][Props' = Props => Len(games') >= Len(games)]_vars

\* C7: a change of the props leaves games empty, currentPage 1, hasMore true and
\* error cleared, and the only call then made under the new props is its
\* page 1 call, sent after that reset.
C7_ResetOnDescriptorChange ==
    [][Props' # Props =>
          /\ games' = <<>>
          /\ currentPage' = 1
          /\ hasMore'
          /\ error' = {}
          /\ \A r \in BagToSet(ActiveFetches') : r = InitialRequest'
          /\ ~showingFavorites' => BagCardinality(ActiveFetches') = 1]_vars

C7_Witness ==
    /\ lastEvent = "handleFiltersChange"
    /\ games = <<>>
    /\ currentPage = 1
    /\ BagCardinality(ActiveFetches) = 1
    /\ \E r \in BagToSet(inflight) : r.superseded /\ r.page = 2

\* C8: when a page 1 call resolves, games is exactly its results, currentPage
\* is 1, both loading flags are false, error is cleared, and hasMore is true
\* iff the response has a next page.
C8_InitialSuccess ==
    [][\A req \in BagToSet(inflight) :
          (Completes(req) /\ lastEvent' = "resolve" /\ req.page = 1)
          => /\ games' = PageResults(req.params)
             /\ currentPage' = 1
             /\ ~isLoading' /\ ~isLoadingMore'
             /\ error' = {}
             /\ hasMore' = PageNext(req.params)]_vars

C8_Witness ==
    /\ lastEvent = "resolve"
    /\ currentPage = 1
    /\ Ready
    /\ Len(games) = ItemsPerPage
    /\ ~showingFavorites
    /\ BagCardinality(inflight) = 0

\* C9: when a page 1 call rejects, games is empty, an error is recorded and
\* both loading flags are false.
C9_InitialFailure ==
    [][\A req \in BagToSet(inflight) :
          (Completes(req) /\ lastEvent' = "reject" /\ req.page = 1)
          => /\ games' = <<>>
             /\ error' # {}
             /\ ~isLoading' /\ ~isLoadingMore']_vars

\* C10: in the Errored state a retry sends the page 1 call of the props now
\* rendered and sets isLoading; when a page 1 call resolves, error is cleared
\* and the list is not loading.
C10_RetryReloads ==
    [][/\ (Errored /\ lastEvent' = "retry")
          => /\ isLoading'
             /\ inflight' = inflight (+) SetToBag({InitialRequest})
       /\ \A req \in BagToSet(inflight) :
             (Completes(req) /\ lastEvent' = "resolve" /\ req.page = 1)
             => (error' = {} /\ ~isLoading' /\ ~isLoadingMore')]_vars

C12_LoadMoreFailureReturnsToReady ==
    [][\A req \in BagToSet(inflight) :
          (Completes(req) /\ lastEvent' = "reject" /\ req.page > 1)
          => /\ UNCHANGED <<games, currentPage, hasMore>>
             /\ ~isLoading' /\ ~isLoadingMore'
             /\ ~Errored']_vars

\* C13: when a call for a page after the first rejects while the list view
\* shows, the list view still shows the same games afterwards; the error view
\* is rendered only after a page 1 call rejected.
C13_LoadMoreFailureKeepsList ==
    [][\A req \in BagToSet(inflight) :
          (/\ Completes(req) /\ lastEvent' = "reject" /\ req.page > 1
           /\ View(GridState, Props, favorites) = "list")
          => /\ View(GridState', Props', favorites') = "list"
             /\ DisplayGames(GridState', Props', favorites')
                   = DisplayGames(GridState, Props, favorites)]_vars

\* C14: the rejection of a call sends no call, and after the rejection of a
\* call for a page after the first the trigger element is not observed: the
\* next call is sent by a handler of the user or by an armed observer.
C14_NoAutomaticRetry ==
    [][/\ lastEvent' = "reject"
          => BagCardinality(inflight') = BagCardinality(inflight) - 1
       /\ \A req \in BagToSet(inflight) :
             (Completes(req) /\ lastEvent' = "reject" /\ req.page > 1)
             => (~observer'.armed /\ ~SentinelRendered(GridState', Props', favorites'))
       /\ BagCardinality(inflight') > BagCardinality(inflight)
          => \/ lastEvent' \in {"handleSearch", "handleToggleFavorites",
                                "handleFiltersChange", "clearAllFilters", "retry"}
             \/ lastEvent' = "intersect" /\ observer.armed]_vars

C14_Witness ==
    /\ lastEvent = "reject"
    /\ Len(games) = ItemsPerPage
    /\ \A i \in 1..Len(games) : games[i].query = QueryOf(InitialRequest.params)
    /\ currentPage = 1
    /\ hasMore
    /\ error # {}
    /\ ~observer.armed
    /\ BagCardinality(inflight) = 0

\* C15: no call is sent by a step that ends in favorites-only mode, be it the
\* switch into the mode, the trigger or the Try Again button, and no call made
\* under the props rendered in that mode awaits a response.
C15_NoFetchInFavoritesMode ==
    [][showingFavorites'
       => /\ BagCardinality(inflight') <= BagCardinality(inflight)
          /\ BagCardinality(ActiveFetches') = 0]_vars

C15_Witness ==
    /\ lastEvent = "retry"
    /\ showingFavorites
    /\ error # {}
    /\ BagCardinality(inflight) = 0

\* C16: the switch into favorites-only mode keeps games, and the list then
\* displayed is the games loaded before the switch whose id is a favorite, in
\* their order.
C16_FavoritesShowLoadedItems ==
    [][(~showingFavorites /\ showingFavorites')
       => /\ DisplayGames(GridState', Props', favorites')
               = SelectSeq(games, LAMBDA g : Includes(favorites, g.id))
          /\ games' = games]_vars

\* C17: while favorites-only mode is on and games was empty when it was
\* switched on, no game is displayed, whatever favorites holds.
C17_EmptyBeforeSwitchStaysEmpty ==
    emptyAtSwitch => DisplayGames(GridState, Props, favorites) = <<>>

\* C18: a press of a heart button changes the membership of exactly one id in
\* favorites: the id is added if it was absent and removed if it was present,
\* and every other id is a favorite afterwards iff it was before.
C18_ToggleFlipsOneId ==
    [][lastEvent' = "handleToggleFavorite"
       => \E gameId \in FavoriteIds :
             /\ Includes(favorites', gameId) # Includes(favorites, gameId)
             /\ \A other \in FavoriteIds \ {gameId} :
                   Includes(favorites', other) = Includes(favorites, other)]_vars

C18_Witness ==
    /\ lastEvent = "handleToggleFavorite"
    /\ favorites = <<>>
    /\ localStorage[FavoritesKey] = {<<"[", "]">>}

\* C19: after the heart button of an id is pressed, pressing it again gives
\* every id the membership it had before the first press, and localStorage
\* the text it held before the first press.
C19_ToggleTwiceRestoresStorage ==
    [][\A gameId \in FavoriteIds :
          (lastEvent' = "handleToggleFavorite"
           /\ favorites' = ToggleFavorite(favorites, gameId))
          => LET twice == ToggleFavorite(favorites', gameId)
             IN  /\ \A x \in FavoriteIds : Includes(twice, x) = Includes(favorites, x)
                 /\ SaveFavoritesEffect(localStorage', twice) = localStorage]_vars

\* C19 as it holds: pressing the heart button of an id twice gives every id
\* its membership back and leaves in localStorage the text of the list then
\* held; the text is the one held before if the id was not a favorite, and
\* else it is that of the other ids in their order followed by the id.
C19_ToggleTwiceRestoresMembership ==
    [][\A gameId \in FavoriteIds :
          (lastEvent' = "handleToggleFavorite"
           /\ favorites' = ToggleFavorite(favorites, gameId))
          => LET twice == ToggleFavorite(favorites', gameId)
                 stored == SaveFavoritesEffect(localStorage', twice)
             IN  /\ \A x \in FavoriteIds : Includes(twice, x) = Includes(favorites, x)
                 /\ stored[FavoritesKey] = {JSONStringify(twice)}
                 /\ ~Includes(favorites, gameId) => stored = localStorage
                 /\ Includes(favorites, gameId)
                    => twice = Append(Without(favorites, gameId), gameId)]_vars

C19_Witness ==
    /\ lastEvent = "handleToggleFavorite"
    /\ favorites = <<2>>
    /\ ToggleFavorite(ToggleFavorite(favorites, 2), 2) = favorites
    /\ ToggleFavorite(favorites, 1) = <<2, 1>>

\* C20: after every task localStorage holds, under 'playhub-favorites', the
\* JSON text of exactly the favorites then in memory, and only a press of a
\* heart button changes favorites.
C20_WriteThrough ==
    [][/\ localStorage'[FavoritesKey] = {JSONStringify(favorites')}
       /\ favorites' # favorites => lastEvent' = "handleToggleFavorite"]_vars

C20_Witness ==
    /\ lastEvent = "handleToggleFavorite"
    /\ favorites = <<3, 1>>
    /\ localStorage[FavoritesKey] = {<<"[", "3", ",", "1", "]">>}

\* C21: whatever text localStorage holds under 'playhub-favorites' at startup,
\* the application is mounted and keeps running: no render of the value read
\* from it throws.
C21_MalformedFavoritesNotFatal == ~failed

----------------------------------------------------------------------------
(* The detail loader's contract *)

\* this step is the settlement of the group: its Promise.all resolved or rejected
DetailSettles(group) ==
    /\ lastEvent' \in {"detailResolve", "detailReject"}
    /\ detailGroups' = detailGroups (-) SetToBag({group})

\* what the modal holds for a part: the game it is of
Held(part) ==
    CASE part = "details" -> gameDetails
      [] part = "screenshots" -> screenshots
      [] part = "trailers" -> trailers

\* C22: when the group of a game settles while the dialog shows another game,
\* gameDetails, screenshots and trailers keep their values.
C22_SupersededDetailsDiscarded ==
    [][\A group \in BagToSet(detailGroups) :
          (DetailSettles(group) /\ selectedGame # {} /\ group.game \notin selectedGame)
          => UNCHANGED <<gameDetails, screenshots, trailers>>]_vars

\* C23: when a group settles while the dialog is closed, gameDetails,
\* screenshots, trailers and the loading flag keep their values.
C23_ClosedDetailsDiscarded ==
    [][\A group \in BagToSet(detailGroups) :
          (DetailSettles(group) /\ selectedGame = {})
          => UNCHANGED <<gameDetails, screenshots, trailers, detailsLoading>>]_vars

\* C24: while the dialog shows a game, its loading flag is cleared only by the
\* last of the three calls of that game's group to complete, and no group of
\* that game is then left unsettled.
C24_LoadingClearedAfterAllThree ==
    [][(detailsLoading /\ ~detailsLoading' /\ selectedGame # {})
       => /\ \E group \in BagToSet(detailGroups) :
                /\ DetailSettles(group)
                /\ group.game \in selectedGame
                /\ Cardinality(group.pending) = 1
          /\ \A group \in BagToSet(detailGroups') : group.game \notin selectedGame]_vars

\* C25: when a call of the group of the game shown rejects, what the calls of
\* the group that had resolved brought is held by the modal afterwards.
C25_PartialDetailsDisplayed ==
    [][\A group \in BagToSet(detailGroups) :
          (DetailSettles(group) /\ lastEvent' = "detailReject"
           /\ group.game \in selectedGame)
          => \A part \in DetailParts \ group.pending : Held(part)' = {group.game}]_vars

----------------------------------------------------------------------------
(* The viewport trigger and the requests of the list *)

\* the calls this step adds to those awaiting a response
Issued == {r \in BagToSet(inflight') : CopiesIn(r, inflight') > CopiesIn(r, inflight)}

\* the results of pages 1..n of the props now rendered, one page after another
RECURSIVE PagesUpTo(_)
PagesUpTo(n) ==
    IF n = 0 THEN <<>>
    ELSE PagesUpTo(n - 1) \o PageResults(SentParams(BuildParams(searchQuery, filters, n)))

\* C26: an observer watches the trigger element only while the list is Ready
\* outside favorites-only mode, and the loadMore it holds is that of the state
\* shown; when the trigger fires it sends one call, for the page after
\* currentPage, and the observer is gone until the state changes again.
C26_TriggerFiresOnce ==
    [][/\ observer.armed
          => /\ Ready /\ ~showingFavorites
             /\ \A cb \in observer.loadMore :
                   cb.currentPage = currentPage /\ cb.hasMore /\ ~cb.isLoadingMore
       /\ lastEvent' = "intersect"
          => IF observer.armed
             THEN /\ BagCardinality(inflight') = BagCardinality(inflight) + 1
                  /\ \A r \in Issued : r.page = currentPage + 1
                  /\ LoadingMore'
                  /\ ~observer'.armed
             ELSE inflight' = inflight]_vars

C26_Witness ==
    /\ lastEvent = "intersect"
    /\ isLoadingMore
    /\ ~observer.armed
    /\ currentPage = 1
    /\ BagCardinality(inflight) = 1
    /\ \E r \in BagToSet(inflight) : r.page = 2 /\ ~r.superseded

\* C29: a call sent when the trigger fires carries the search text and the
\* filters of the props now rendered.
C29_LoadMoreUsesCurrentDescriptor ==
    [][lastEvent' = "intersect"
       => \A r \in Issued : QueryOf(r.params) = QueryOf(InitialRequest.params)]_vars

\* C30: whenever the list is Ready or Exhausted outside favorites-only mode
\* with no call awaiting a response, games is the results of pages
\* 1..currentPage of the props now rendered, in order and each once, and the
\* loadMore of an armed observer asks for page currentPage + 1.
C30_ItemsArePagesInOrder ==
    ((Ready \/ Exhausted) /\ ~showingFavorites /\ BagCardinality(inflight) = 0)
    => /\ games = PagesUpTo(currentPage)
       /\ \A cb \in observer.loadMore : cb.currentPage = currentPage

\* a text with nothing but spaces in it
OnlySpaces(text) == \A i \in 1..Len(text) : text[i] = " "

\* C27: in every list call awaiting a response, a filter is a parameter of
\* the request iff its value is not empty: the search text if it is not
\* blank, sent trimmed; the genres and the platforms if any is picked, joined
\* by commas; the ordering and the score range if set. No parameter is sent
\* with an empty value.
C27_EmptyFiltersOmitted ==
    \A r \in BagToSet(inflight) :
       /\ ("search" \in DOMAIN r.params) = ~OnlySpaces(searchQuery)
       /\ ("genres" \in DOMAIN r.params) = (filters.genres # <<>>)
       /\ ("platforms" \in DOMAIN r.params) = (filters.platforms # <<>>)
       /\ ("ordering" \in DOMAIN r.params) = (filters.ordering # "")
       /\ ("metacritic" \in DOMAIN r.params) = (filters.metacritic # "")
       /\ "search" \in DOMAIN r.params => r.params.search = Trim(searchQuery)
       /\ "genres" \in DOMAIN r.params => r.params.genres = Join(filters.genres)
       /\ "platforms" \in DOMAIN r.params => r.params.platforms = Join(filters.platforms)
       /\ "ordering" \in DOMAIN r.params => r.params.ordering = filters.ordering
       /\ "metacritic" \in DOMAIN r.params => r.params.metacritic = filters.metacritic
       /\ \A k \in DOMAIN r.params : ~IsBlank(k, r.params[k])

C27_Witness ==
    /\ searchQuery = <<" ">>
    /\ \E r \in BagToSet(inflight) :
          /\ r.page = 2
          /\ DOMAIN r.params = {"page", "page_size", "genres", "metacritic"}
          /\ r.params.genres = "4,51"
          /\ r.params.metacritic = "80,100"

\* C28: a call whose transport failed, or whose response had a status that
\* is not 2xx, settles as a rejection: the task it starts is the catch of its
\* caller, which for a list call records the error, never the code after the
\* await.
C28_FailedCallRejects ==
    [][(\/ lastResponse'.kind = "networkError"
        \/ lastResponse'.kind = "http" /\ ~ResponseOk(lastResponse'))
       => /\ lastEvent' \in {"reject", "detailReject"}
          /\ lastEvent' = "reject" => error' # {}]_vars

C28_Witness ==
    /\ lastEvent = "reject"
    /\ lastResponse = HttpResponse(StatusServerError)
    /\ error # {}
    /\ Len(games) > 0

\* what a reader of the favorites slot finds in the storage `ls`
Persisted(ls) == LoadFavoritesEffect(ls)

\* C31: at startup over a valid persisted list L, no step before the first
\* toggle leaves anything but L in the slot (so not the empty list), and the
\* render of the loaded value makes the favorites in memory L.
C31_StartupKeepsPersisted ==
    [][/\ \A v \in Persisted(localStorage) :
             (mountPending /\ v.kind = "array") => Persisted(localStorage') = {v}
       /\ \A v \in pendingFavorites :
             v.kind = "array" => /\ favorites' = v.items
                                 /\ Persisted(localStorage') = {v}]_vars

\* the games whose details, screenshots or trailers the open dialog renders
DetailsShown ==
    IF selectedGame = {} THEN {} ELSE gameDetails \cup screenshots \cup trailers

\* C32: while the dialog is open for a game, the details, screenshots and
\* trailers it shows are empty or were fetched for that game.
C32_DetailsAreOfSelectedGame == DetailsShown \subseteq selectedGame

\* C33: with every call answered in the end, a raised loading flag is always
\* followed by a state with isLoading and isLoadingMore both false, and no
\* loading flag is true while no call is outstanding.
C33_LoadingFlagsSettle ==
    /\ [](inflight = EmptyBag => ~isLoading /\ ~isLoadingMore)
    /\ (isLoading \/ isLoadingMore) ~> (~isLoading /\ ~isLoadingMore)

\* the last call outstanding has failed, with a page loaded before it: nothing
\* is outstanding and both flags are down
C33_Witness ==
    /\ lastEvent = "reject"
    /\ inflight = EmptyBag
    /\ error # {}
    /\ games # <<>>
    /\ ~isLoading
    /\ ~isLoadingMore

NoDuplicates(list) == \A i, j \in 1..Len(list) : list[i] = list[j] => i = j

\* C35: if the favorites the session started with hold no id twice, then
\* after any presses of heart buttons the favorites hold no id twice, and an
\* id is a favorite iff it was one at the start and was pressed an even number
\* of times, or was none and was pressed an odd number of times.
C35_NoDuplicatesAndParity ==
    NoDuplicates(toggleHistory.start)
    => /\ NoDuplicates(favorites)
       /\ \A gameId \in FavoriteIds :
             Includes(favorites, gameId)
             <=> (Includes(toggleHistory.start, gameId) # (gameId \in toggleHistory.toggled))

\* a stored favorite was removed and another id added, each pressed an odd
\* number of times
C35_Witness ==
    /\ lastEvent = "handleToggleFavorite"
    /\ NoDuplicates(toggleHistory.start)
    /\ Len(favorites) >= 2
    /\ \E a, b \in toggleHistory.toggled :
          /\ Includes(toggleHistory.start, a) /\ ~Includes(favorites, a)
          /\ ~Includes(toggleHistory.start, b) /\ Includes(favorites, b)

\* C36: after the show-filters effect, the trending section is rendered iff
\* the search text is blank, no filter is active and favorites-only mode is
\* off, and the filter bar is rendered in exactly the other states; so exactly
\* one of the two is rendered.
C36_TrendingOrFilterBar ==
    LET quiet == /\ OnlySpaces(searchQuery)
                 /\ filters = EmptyFilters
                 /\ ~showingFavorites
    IN  /\ shouldShowTrending <=> quiet
        /\ showFilters <=> ~quiet
        /\ shouldShowTrending # showFilters

\* a genre is picked and the search box holds a blank: the filter bar is
\* rendered, not the trending section
C36_Witness ==
    /\ lastEvent = "handleSearch"
    /\ searchQuery = <<" ">>
    /\ filters.genres # <<>>
    /\ showFilters
    /\ ~shouldShowTrending

\* the indexes a carousel of n games may stand at
CarouselRange(n) == 0..Max(0, n - 3)

\* C37: the index of each carousel stays within 0..max(0, n - 3) for its n
\* games, and from every index of that range a next click followed by a
\* previous click, and a previous click followed by a next click, give the
\* index back.
C37_CarouselIndexInRange ==
    /\ currentTrendingIndex \in CarouselRange(Len(trendingGames))
    /\ currentUpcomingIndex \in CarouselRange(Len(upcomingGames))
    /\ \A n \in {Len(trendingGames), Len(upcomingGames)} :
          \A i \in CarouselRange(n) :
             /\ PrevIndex(NextIndex(i, n), n) = i
             /\ NextIndex(PrevIndex(i, n), n) = i

\* a previous click at index 0 of a full carousel wrapped to its last window,
\* next to a carousel too short to move
C37_Witness ==
    /\ lastEvent = "prevTrending"
    /\ Len(trendingGames) = CarouselLimit
    /\ currentTrendingIndex = CarouselLimit - 3
    /\ Len(upcomingGames) = 2
    /\ currentUpcomingIndex = 0

====
